---- MODULE Spec2Model ----
(***************************************************************************)
(* Verification model of fyp2024/extract_features.py: the four analyzers   *)
(* (check_symmetry, color_analysis, detect_dots, calculate_compactness),   *)
(* the aggregator extract_features and the batch loop process_images.      *)
(*                                                                         *)
(* Arrays.  Every mask the program handles holds two values, 0 and one     *)
(* lesion value v.  A 2-D array is the record                              *)
(*    [h, w : shape,  nz : the set of <<row, col>> holding the value,      *)
(*     val : the value,  flt : TRUE when numpy made the array float64]     *)
(* and every numpy operation is the corresponding operation on that        *)
(* record.                                                                 *)
(***************************************************************************)
EXTENDS Integers, FiniteSets, Sequences, TLC

VARIABLES
    mask,             \* the caller's mask array
    build,            \* how this numpy build casts an out-of-range float to int8
    sym,              \* the outcome of a direct call of check_symmetry
    image,            \* the caller's image array
    orig,             \* the image and mask as they were handed over
    pc,               \* where the running call of extract_features stands
    features,         \* the features array of the running call
    invoked,          \* detect_dots was invoked in the running call
    results,          \* what the calls of extract_features made so far gave
    cmp,              \* the outcome of a direct call of calculate_compactness
    pairs,            \* process_images: the rows of the metadata file
    i,                \* process_images: the loop index
    rows,             \* process_images: the list `features`
    valid_image_ids,  \* process_images: the list valid_image_ids
    bpc               \* process_images: looping, returned or left by an exception

vars == <<mask, build, sym, image, orig, pc, features, invoked, results, cmp,
          pairs, i, rows, valid_image_ids, bpc>>

extVars == <<image, orig, pc, features, invoked, results, cmp>>
batchVars == <<pairs, i, rows, valid_image_ids, bpc>>

----------------------------------------------------------------------------
(* Bounds of the checked inputs *)

\* lesion shapes are the subsets of a ShapeH x ShapeW block of cells
ShapeH == 2
ShapeW == 2
\* the mask is a CanvasH x CanvasW array; the block sits at one of the Anchors
CanvasH == 24
CanvasW == 24
\* the metadata file of process_images has NPairs rows
NPairs == 2

\* line 81: max_dist = max(dist_list) + 10
Margin == 10

\* the values a decoded mask uses for a lesion cell
LesionValues == {1, 255}

\* np.float64 -> np.int8 of a value outside -128..127 is undefined in C; the
\* builds of numpy either wrap (255 -> -1) or saturate (255 -> 127)
Builds == {"wrap", "saturate"}

----------------------------------------------------------------------------
(* Arithmetic helpers *)

\* the sum of the i-th coordinates of a set of tuples
RECURSIVE SumIdx(_, _)
SumIdx(S, k) ==
    IF S = {} THEN 0
    ELSE LET x == CHOOSE y \in S : TRUE IN x[k] + SumIdx(S \ {x}, k)

SetMax(S) == CHOOSE x \in S : \A y \in S : y <= x

Abs(x) == IF x < 0 THEN -x ELSE x

\* int(np.sqrt(n)) for a natural n: the truncated square root
ISqrt(n) == CHOOSE k \in 0..n : k * k <= n /\ (k + 1) * (k + 1) > n

----------------------------------------------------------------------------
(* numpy / scipy.ndimage on two-valued arrays *)

Arr(h, w, nz, val, flt) == [h |-> h, w |-> w, nz |-> nz, val |-> val, flt |-> flt]

\* np.sum(mask)
NpSum(a) == a.val * Cardinality(a.nz)

\* ndimage.center_of_mass(mask) followed by int(): sum(i * m) / sum(m), truncated
CenterOfMass(a) ==
    <<(a.val * SumIdx(a.nz, 1)) \div NpSum(a), (a.val * SumIdx(a.nz, 2)) \div NpSum(a)>>

\* ndimage.binary_erosion(mask, generate_binary_structure(2, 1)): a cell stays
\* when it and its four neighbours are nonzero (cells outside the array are 0)
BinaryErosion(a) ==
    {p \in a.nz : /\ <<p[1] - 1, p[2]>> \in a.nz
                  /\ <<p[1] + 1, p[2]>> \in a.nz
                  /\ <<p[1], p[2] - 1>> \in a.nz
                  /\ <<p[1], p[2] + 1>> \in a.nz}

\* np.nonzero(mask - eroded): uint8 minus bool, taken modulo 2^8
BorderCells(a) ==
    LET eroded == BinaryErosion(a)
        diff(p) == (a.val - (IF p \in eroded THEN 1 ELSE 0)) % 256
    IN  {p \in a.nz : diff(p) # 0}

\* np.append(np.zeros([n, w]), mask, 0)
PadTop(a, n) ==
    [a EXCEPT !.h = @ + n, !.nz = {<<p[1] + n, p[2]>> : p \in a.nz}, !.flt = TRUE]

\* np.append(np.zeros([h, n]), mask, 1)
PadLeft(a, n) ==
    [a EXCEPT !.w = @ + n, !.nz = {<<p[1], p[2] + n>> : p \in a.nz}, !.flt = TRUE]

\* np.append(mask, np.zeros([n, w]), 0)
PadBottom(a, n) == [a EXCEPT !.h = @ + n, !.flt = TRUE]

\* np.append(mask, np.zeros([h, n]), 1)
PadRight(a, n) == [a EXCEPT !.w = @ + n, !.flt = TRUE]

Min(x, y) == IF x < y THEN x ELSE y
Max(x, y) == IF x > y THEN x ELSE y

\* mask[r1:r2, c1:c2] for 0 <= r1, 0 <= c1 (the stops are clamped to the shape)
Slice(a, r1, r2, c1, c2) ==
    LET re == Min(r2, a.h)
        ce == Min(c2, a.w)
    IN  [a EXCEPT !.h = Max(0, re - r1), !.w = Max(0, ce - c1),
                  !.nz = {<<p[1] - r1, p[2] - c1>> :
                            p \in {q \in a.nz : /\ q[1] >= r1 /\ q[1] < re
                                                /\ q[2] >= c1 /\ q[2] < ce}}]

\* x.astype(np.int8) of one value: uint8 wraps, float64 out of range is undefined
Int8(v, flt, b) ==
    IF v <= 127 THEN v
    ELSE IF flt /\ b = "saturate" THEN 127
    ELSE v - 256

AsInt8(a, b) == [a EXCEPT !.val = Int8(a.val, a.flt, b), !.flt = FALSE]

\* np.flip(a, axis=1) / np.flip(a, axis=0) / np.transpose / np.triu / np.tril
FlipLR(a) == [a EXCEPT !.nz = {<<p[1], a.w - 1 - p[2]>> : p \in a.nz}]
FlipUD(a) == [a EXCEPT !.nz = {<<a.h - 1 - p[1], p[2]>> : p \in a.nz}]
Transpose(a) == [a EXCEPT !.h = a.w, !.w = a.h, !.nz = {<<p[2], p[1]>> : p \in a.nz}]
Triu(a) == [a EXCEPT !.nz = {p \in a.nz : p[2] >= p[1]}]
Tril(a) == [a EXCEPT !.nz = {p \in a.nz : p[2] <= p[1]}]

\* np.sum(np.abs(x - y)) of two int8 arrays of one shape and one value
SumAbsDiff(x, y) ==
    Abs(x.val) * Cardinality((x.nz \ y.nz) \cup (y.nz \ x.nz))

\* np.split(a, 2, axis=1) and np.split(a, 2, axis=0) (the shape is even)
SplitCols(a) == <<Slice(a, 0, a.h, 0, a.w \div 2), Slice(a, 0, a.h, a.w \div 2, a.w)>>
SplitRows(a) == <<Slice(a, 0, a.h \div 2, 0, a.w), Slice(a, a.h \div 2, a.h, 0, a.w)>>

----------------------------------------------------------------------------
(* check_symmetry, lines 64-164 *)

\* lines 72-81: the truncated distance of every contour cell to com, plus 10
MaxDist(a, com) ==
    LET dist(p) == ISqrt((p[1] - com[1]) * (p[1] - com[1])
                         + (p[2] - com[2]) * (p[2] - com[2]))
    IN  SetMax({dist(p) : p \in BorderCells(a)}) + Margin

\* a plausible slip in lines 92-95: the upper bound is not moved with the padding
CropNoShift(a, com, max_dist) ==
    LET r1 == com[1] - max_dist
        r2 == com[1] + max_dist
        c1 == com[2] - max_dist
        c2 == com[2] + max_dist
        m1 == IF r1 < 0 THEN PadTop(a, Abs(r1)) ELSE a
        r1b == IF r1 < 0 THEN 0 ELSE r1
        m2 == IF c1 < 0 THEN PadLeft(m1, Abs(c1)) ELSE m1
        c2a == IF c1 < 0 THEN c2 + Abs(c1) ELSE c2
        c1b == IF c1 < 0 THEN 0 ELSE c1
        m3 == IF r2 > m2.h THEN PadBottom(m2, r2 - m2.h) ELSE m2
        m4 == IF c2a > m3.w THEN PadRight(m3, c2a - m3.w) ELSE m3
        n0 == Slice(m4, r1b, r2, c1b, c2a)
        n1 == IF n0.h % 2 # 0 THEN PadBottom(n0, 1) ELSE n0
        n2 == IF n1.w % 2 # 0 THEN PadRight(n1, 1) ELSE n1
    IN  [new_mask |-> n2, top |-> r1b - (IF r1 < 0 THEN Abs(r1) ELSE 0),
         left |-> c1b - (IF c1 < 0 THEN Abs(c1) ELSE 0)]

\* lines 84-114: the square around com, zero-padded where it leaves the mask,
\* made even.  top/left: the original row/column that crop index 0 stands for
Crop(a, com, max_dist) ==
    LET r1 == com[1] - max_dist
        r2 == com[1] + max_dist
        c1 == com[2] - max_dist
        c2 == com[2] + max_dist
        \* lines 92-95
        m1 == IF r1 < 0 THEN PadTop(a, Abs(r1)) ELSE a
        r2a == IF r1 < 0 THEN r2 + Abs(r1) ELSE r2
        r1b == IF r1 < 0 THEN 0 ELSE r1
        \* lines 96-99
        m2 == IF c1 < 0 THEN PadLeft(m1, Abs(c1)) ELSE m1
        c2a == IF c1 < 0 THEN c2 + Abs(c1) ELSE c2
        c1b == IF c1 < 0 THEN 0 ELSE c1
        \* lines 100-105
        m3 == IF r2a > m2.h THEN PadBottom(m2, r2a - m2.h) ELSE m2
        m4 == IF c2a > m3.w THEN PadRight(m3, c2a - m3.w) ELSE m3
        \* line 108
        n0 == Slice(m4, r1b, r2a, c1b, c2a)
        \* lines 111-114
        n1 == IF n0.h % 2 # 0 THEN PadBottom(n0, 1) ELSE n0
        n2 == IF n1.w % 2 # 0 THEN PadRight(n1, 1) ELSE n1
    IN  [new_mask |-> n2, top |-> r1b - (IF r1 < 0 THEN Abs(r1) ELSE 0),
         left |-> c1b - (IF c1 < 0 THEN Abs(c1) ELSE 0)]

\* lines 116-125: np.sum(sym) of the left-right split
split_vertical(new_mask, b) ==
    LET halves == SplitCols(new_mask)
        mask_left == AsInt8(halves[1], b)
        mask_right == AsInt8(halves[2], b)
        reflect_mask_left == FlipLR(mask_left)
    IN  SumAbsDiff(mask_right, reflect_mask_left)

\* lines 127-136
split_horizontal(new_mask, b) ==
    LET halves == SplitRows(new_mask)
        mask_up == AsInt8(halves[1], b)
        mask_down == AsInt8(halves[2], b)
        reflect_mask_up == FlipUD(mask_up)
    IN  SumAbsDiff(mask_down, reflect_mask_up)

\* lines 138-148
split_downwards_diagonal(new_mask, b) ==
    LET mask_up == AsInt8(Triu(new_mask), b)
        rotate_mask_up == Transpose(mask_up)
        mask_down == AsInt8(Tril(new_mask), b)
    IN  SumAbsDiff(mask_down, rotate_mask_up)

\* lines 150-161
split_upwards_diagonal(new_mask, b) ==
    LET new_new_mask == FlipLR(new_mask)
        mask_up == AsInt8(Triu(new_new_mask), b)
        rotate_mask_up == Transpose(mask_up)
        mask_down == AsInt8(Tril(new_new_mask), b)
    IN  SumAbsDiff(mask_down, rotate_mask_up)

\* line 64: area = np.sum(mask)
Area(a) == NpSum(a)

\* what a slip would do at lines 65-66: go on with the center of mass (0, 0)
OnDegenerateSilent(a) ==
    [kind |-> "ratio", num |-> 0, den |-> 1, sums |-> <<0, 0, 0, 0>>, area |-> 0,
     com |-> <<0, 0>>, max_dist |-> Margin, new_mask |-> a, top |-> 0, left |-> 0]

\* lines 65-66 on an all-zero mask: center_of_mass divides 0 by 0 and yields
\* NaN, and int(NaN) raises ValueError
OnDegenerate(a) == [kind |-> "ValueError"]

\* check_symmetry(mask) under build b.  The mean of the four ratios
\* 2 * sums[i] / area is kept exact, as the fraction num / den.
\* An all-zero mask makes center_of_mass return NaN and int(NaN) raise
\* ValueError at line 66.
check_symmetry(a, b) ==
    IF NpSum(a) = 0 THEN OnDegenerate(a)
    ELSE
      LET area == Area(a)
          com == CenterOfMass(a)
          max_dist == MaxDist(a, com)
          crop == Crop(a, com, max_dist)
          nm == crop.new_mask
          sums == <<split_vertical(nm, b), split_horizontal(nm, b),
                    split_downwards_diagonal(nm, b), split_upwards_diagonal(nm, b)>>
      IN  [kind |-> "ratio",
           num |-> 2 * (sums[1] + sums[2] + sums[3] + sums[4]),
           den |-> 4 * area,
           sums |-> sums, area |-> area, com |-> com, max_dist |-> max_dist,
           new_mask |-> nm, top |-> crop.top, left |-> crop.left]

\* lines 167-173 with the thresholds 0.1 and 0.3 as 1/10 and 3/10
calculate_symmetry_level(ratio) ==
    IF 10 * ratio.num < ratio.den THEN 1
    ELSE IF 10 * ratio.num < 3 * ratio.den THEN 2
    ELSE 3

----------------------------------------------------------------------------
(* Images.                                                                  *)
(* An image is a 3 x 3 arrangement of square tiles of `tile` pixels a side, *)
(* each of one colour, plus the green circles cv2.circle has drawn on it:   *)
(*    [tile, colour : Tiles -> BGR triple, rings : set of [cx, cy, r]].     *)
(* A mask of shape 3 x 3 is resized by color_analysis and                   *)
(* process_images_with_masks (INTER_NEAREST) so that mask cell <<r, c>>     *)
(* covers tile <<r, c>>.  Contours are taken tile-wise: a connected set of  *)
(* tiles is one contour.                                                    *)

Tiles == (0..2) \X (0..2)

\* pixels a side of a tile: 11 gives a single tile the contour area 100, 14
\* gives it 169
TileSides == {11, 14}

\* BGR triples
Black == <<0, 0, 0>>
Red == <<0, 0, 255>>
Crimson == <<40, 0, 238>>
Blue == <<255, 80, 0>>
Brown == <<0, 64, 128>>
\* line 219 / line 266: the colour cv2.circle draws with

MaxOf3(t) == Max(t[1], Max(t[2], t[3]))
MinOf3(t) == Min(t[1], Min(t[2], t[3]))

\* n / d rounded to the nearest integer (d > 0)
RoundDiv(n, d) == (2 * n + d) \div (2 * d)

\* cv2.cvtColor(image, cv2.COLOR_BGR2HSV) of one 8-bit pixel: H in 0..179
BGR2HSV(bgr) ==
    LET b == bgr[1]
        g == bgr[2]
        r == bgr[3]
        v == MaxOf3(bgr)
        delta == v - MinOf3(bgr)
        sat == IF v = 0 THEN 0 ELSE RoundDiv(255 * delta, v)
        hraw == IF delta = 0 THEN 0
                ELSE IF v = r THEN RoundDiv(30 * (g - b), delta)
                ELSE IF v = g THEN 60 + RoundDiv(30 * (b - r), delta)
                ELSE 120 + RoundDiv(30 * (r - g), delta)
        hue == IF hraw < 0 THEN hraw + 180 ELSE hraw
    IN  <<hue, sat, v>>

\* cv2.cvtColor(image, cv2.COLOR_BGR2GRAY) of one pixel
BGR2GRAY(bgr) == RoundDiv(114 * bgr[1] + 587 * bgr[2] + 299 * bgr[3], 1000)

\* lines 326-334: the catalogue of HSV ranges, in the order of the dict
color_names == <<"white", "red", "red2", "light_brown", "dark_brown", "blue_gray", "black">>

color_ranges ==
    [white       |-> <<<<0, 0, 150>>, <<180, 50, 255>>>>,
     red         |-> <<<<0, 50, 50>>, <<5, 255, 255>>>>,
     red2        |-> <<<<170, 50, 50>>, <<180, 255, 255>>>>,
     light_brown |-> <<<<10, 50, 50>>, <<30, 255, 255>>>>,
     dark_brown  |-> <<<<0, 50, 50>>, <<20, 255, 150>>>>,
     blue_gray   |-> <<<<90, 50, 50>>, <<120, 255, 255>>>>,
     black       |-> <<<<0, 0, 0>>, <<180, 255, 30>>>>]

\* lines 249-250: the green range of detect_dots
green_range == <<<<40, 50, 50>>, <<80, 255, 255>>>>

\* cv2.inRange on one pixel
InRange(hsv, range) ==
    \A k \in 1..3 : range[1][k] <= hsv[k] /\ hsv[k] <= range[2][k]

----------------------------------------------------------------------------
(* Contours of tile sets *)

Adjacent8(p, q) == p # q /\ Abs(p[1] - q[1]) <= 1 /\ Abs(p[2] - q[2]) <= 1
Adjacent4(p, q) == Abs(p[1] - q[1]) + Abs(p[2] - q[2]) = 1

\* the cells of S connected to the cells of C (C a subset of S)
RECURSIVE Grow(_, _)
Grow(C, S) ==
    LET more == {q \in S \ C : \E p \in C : Adjacent8(p, q)}
    IN  IF more = {} THEN C ELSE Grow(C \cup more, S)

\* cv2.findContours(..., RETR_EXTERNAL, ...): the 8-connected components
RECURSIVE Components(_)
Components(S) ==
    IF S = {} THEN {}
    ELSE LET c == Grow({CHOOSE p \in S : TRUE}, S)
         IN  {c} \cup Components(S \ c)

\* the cells of a h x w grid outside C that a 4-connected path joins to the rim
RECURSIVE Outside(_, _, _, _)
Outside(O, C, h, w) ==
    LET all == (0..(h - 1)) \X (0..(w - 1))
        more == {q \in all \ (C \cup O) : \E p \in O : Adjacent4(p, q)}
    IN  IF more = {} THEN O ELSE Outside(O \cup more, C, h, w)

\* a component with its holes filled: what its external contour encloses
Filled(C, h, w) ==
    LET all == (0..(h - 1)) \X (0..(w - 1))
        rim == {q \in all \ C : q[1] \in {0, h - 1} \/ q[2] \in {0, w - 1}}
    IN  all \ Outside(rim, C, h, w)

\* the sides of the cells of F that face a cell outside F
ExposedEdges(F) ==
    Cardinality({<<p, d>> \in F \X {<<0, 1>>, <<0, -1>>, <<1, 0>>, <<-1, 0>>} :
                    <<p[1] + d[1], p[2] + d[2]>> \notin F})

\* cv2.contourArea of the external contour of component C whose cells are
\* squares of `side` pixels: the polygon through the centres of the boundary
\* pixels of a rectilinear region of A pixels and perimeter P encloses
\* A - P / 2 + 1
OuterArea(C, h, w, side) ==
    LET F == Filled(C, h, w)
    IN  Cardinality(F) * side * side - (side * ExposedEdges(F)) \div 2 + 1

\* cv2.arcLength(cnt, True) of that contour: P - 4
OuterPerimeter(C, h, w, side) == side * ExposedEdges(Filled(C, h, w)) - 4

\* cv2.boundingRect(cnt): x, y, w, h in pixels
BoundingRect(C, side) ==
    LET r0 == SetMax({-p[1] : p \in C})
        r1 == SetMax({p[1] : p \in C})
        c0 == SetMax({-p[2] : p \in C})
        c1 == SetMax({p[2] : p \in C})
    IN  [x |-> side * (-c0), y |-> side * (-r0),
         w |-> side * (c1 + c0 + 1), h |-> side * (r1 + r0 + 1)]

\* the thickness cv2.circle is called with (lines 219 and 266)
RingThickness == 2

\* the pixel at the centre of tile t
TileCentre(t, side) == [x |-> side * t[2] + side \div 2, y |-> side * t[1] + side \div 2]

\* a drawn circle passes through the centre of tile t (within its thickness)
\* and so cuts the tile into two pieces
Splits(ring, t, side) ==
    LET c == TileCentre(t, side)
        d2 == (c.x - ring.cx) * (c.x - ring.cx) + (c.y - ring.cy) * (c.y - ring.cy)
    IN  /\ d2 >= (ring.r - RingThickness) * (ring.r - RingThickness)
        /\ d2 <= (ring.r + RingThickness) * (ring.r + RingThickness)

\* a drawn circle has pixels in tile t: the annulus meets the tile's square
Touches(ring, t, side) ==
    LET x0 == side * t[2]
        x1 == side * t[2] + side - 1
        y0 == side * t[1]
        y1 == side * t[1] + side - 1
        nx == Max(x0, Min(ring.cx, x1))
        ny == Max(y0, Min(ring.cy, y1))
        fx == IF Abs(ring.cx - x0) > Abs(ring.cx - x1) THEN x0 ELSE x1
        fy == IF Abs(ring.cy - y0) > Abs(ring.cy - y1) THEN y0 ELSE y1
        near2 == (nx - ring.cx) * (nx - ring.cx) + (ny - ring.cy) * (ny - ring.cy)
        far2 == (fx - ring.cx) * (fx - ring.cx) + (fy - ring.cy) * (fy - ring.cy)
    IN  /\ near2 <= (ring.r + 1) * (ring.r + 1)
        /\ far2 >= (ring.r - 1) * (ring.r - 1)

\* cv2.contourArea of the largest contour left of component C of the image:
\* the pixels a drawn circle has overwritten belong to no colour band and to no
\* blob, so a single tile that a circle splits leaves two pieces of about half
\* the tile less the circle's width; a larger component keeps its outer contour
ContourArea(C, img) ==
    IF /\ Cardinality(C) = 1
       /\ \E ring \in img.rings : \A t \in C : Splits(ring, t, img.tile)
    THEN ((img.tile - 1) * (img.tile - 1 - RingThickness)) \div 2
    ELSE OuterArea(C, 3, 3, img.tile)

----------------------------------------------------------------------------
(* color_analysis, lines 313-367 *)

\* line 357: cv2.contourArea(cnt) > 100
ColorAreaThreshold == 100

\* line 357: the contours that survive the filter
KeepsContour(area) == area > ColorAreaThreshold

\* lines 342-359 for one band: the band's pixels inside the mask have a
\* contour that survives
BandPresent(name, img, m) ==
    LET masked_color_mask ==
            {t \in Tiles : InRange(BGR2HSV(img.colour[t]), color_ranges[name]) /\ t \in m.nz}
    IN  \E cnt \in Components(masked_color_mask) : KeepsContour(ContourArea(cnt, img))

\* lines 339-361: the loop over the catalogue fills color_regions / present_colors
RECURSIVE PresentColors(_, _, _)
PresentColors(k, img, m) ==
    IF k = 0 THEN {}
    ELSE PresentColors(k - 1, img, m)
         \cup (IF BandPresent(color_names[k], img, m) THEN {color_names[k]} ELSE {})

\* lines 363-367 without the deduplication
ColorsNumberNoDedup(present_colors) == Cardinality(present_colors)

\* lines 363-367
ColorsNumber(present_colors) ==
    IF "red" \in present_colors /\ "red2" \in present_colors
    THEN Cardinality(present_colors) - 1
    ELSE Cardinality(present_colors)

color_analysis(img, m) == ColorsNumber(PresentColors(Len(color_names), img, m))

----------------------------------------------------------------------------
(* process_images_with_masks and detect_dots, lines 177-272 *)

\* line 198: the constant C of cv2.adaptiveThreshold
AdaptiveC == 8
\* line 206
larger_dot_area_threshold == 100
\* line 257
minRadius == 10
maxRadius == 200

RECURSIVE GraySum(_, _)
GraySum(S, img) ==
    IF S = {} THEN 0
    ELSE LET t == CHOOSE u \in S : TRUE
         IN  BGR2GRAY(img.colour[t]) + GraySum(S \ {t}, img)

\* lines 187-202: grayscale, contrast equalisation, blur, adaptive threshold
\* (THRESH_BINARY_INV) and opening keep the tiles that are darker than the mean
\* of their neighbourhood by at least C; a drawn circle is 2 pixels wide and
\* does not survive the 3 x 3 opening
Morphed(img) ==
    {t \in Tiles :
        LET hood == {u \in Tiles : u = t \/ Adjacent8(u, t)}
        IN  BGR2GRAY(img.colour[t]) <= GraySum(hood, img) \div Cardinality(hood) - AdaptiveC}

\* line 213-214: 4 * pi * area / perimeter^2 > 0.1, with pi taken as 355 / 113
Circular(area, perimeter) == 40 * 355 * area > 113 * perimeter * perimeter

\* line 217: the bounding box keeps clear of the image border
InsideBorder(box, img) ==
    /\ box.x > 1
    /\ box.y > 1
    /\ box.x + box.w < 3 * img.tile - 1
    /\ box.y + box.h < 3 * img.tile - 1

\* lines 208-219: the circles drawn, one per accepted contour
Candidates(img) ==
    {[cx |-> box.x + box.w \div 2, cy |-> box.y + box.h \div 2, r |-> (box.w + box.h) \div 2] :
        box \in {BoundingRect(cnt, img.tile) :
                   cnt \in {c \in Components(Morphed(img)) :
                              /\ ContourArea(c, img) > larger_dot_area_threshold
                              /\ Circular(ContourArea(c, img), OuterPerimeter(c, 3, 3, img.tile))
                              /\ InsideBorder(BoundingRect(c, img.tile), img)}}}

\* lines 177-228: cv2.circle draws on `image`, which is the caller's array, so
\* the call yields the caller's image as it is afterwards and the returned
\* image (the annotated image with the pixels outside the mask zeroed)
process_images_with_masks(img, m) ==
    LET annotated == [img EXCEPT !.rings = @ \cup Candidates(img)]
    IN  [image |-> annotated,
         result |-> [rings |-> annotated.rings, kept |-> m.nz, tile |-> img.tile]]

\* lines 246-257: the circles cv2.HoughCircles finds in the green pixels of the
\* masked image: the drawn circles of admissible radius that the mask left whole
HoughCircles(result) ==
    {ring \in result.rings :
        /\ ring.r >= minRadius
        /\ ring.r <= maxRadius
        /\ \A t \in Tiles : Touches(ring, t, result.tile) => t \in result.kept}

\* lines 231-272: the flag returned and the caller's image after the call
\* (lines 265-266 draw the circles found on `image` as well)
detect_dots(img, m) ==
    LET marked == process_images_with_masks(img, m)
        circles == HoughCircles(marked.result)
    IN  IF circles # {}
        THEN [flag |-> 1, image |-> [marked.image EXCEPT !.rings = @ \cup circles]]
        ELSE [flag |-> 0, image |-> marked.image]

----------------------------------------------------------------------------
(* calculate_compactness, lines 275-308 *)

\* the result is perimeter^2 / (4 * pi * area), kept as [p2, a4] = p2 / (pi * a4);
\* a contour of area 0 makes the float division raise ZeroDivisionError
calculate_compactness(m) ==
    LET contours == Components(m.nz)
    IN  IF contours = {} THEN [kind |-> "None"]   \* lines 293-296: print, return None
        ELSE LET contour == CHOOSE c \in contours :
                                \A d \in contours :
                                    OuterArea(d, m.h, m.w, 1) <= OuterArea(c, m.h, m.w, 1)
                 area == OuterArea(contour, m.h, m.w, 1)
                 perimeter == OuterPerimeter(contour, m.h, m.w, 1)
             IN  IF area = 0 THEN [kind |-> "ZeroDivisionError"]
                 ELSE [kind |-> "value", p2 |-> perimeter * perimeter, a4 |-> 4 * area]

----------------------------------------------------------------------------
(* extract_features, lines 14-45 *)

\* line 37 as a slip would have it
ShouldDetectFromOne(color_count) == color_count >= 1

\* line 37: if (features[1] >= 2)
ShouldDetect(color_count) == color_count >= 2

\* line 28: np.zeros(num_features)
ZeroFeatures == <<0, 0, 0, 0>>

\* line 43: storing the compactness in the float16 array; None is stored as NaN
StoreCompactness(c) == IF c.kind = "None" THEN "nan" ELSE [p2 |-> c.p2, a4 |-> c.a4]

----------------------------------------------------------------------------
(* Inputs *)

BlockCells == (0..(ShapeH - 1)) \X (0..(ShapeW - 1))

\* the block touches the top/left edge, lies clear of every edge, or touches
\* the bottom/right edge
AnchorRows == {0, Margin + 1, CanvasH - ShapeH}
AnchorCols == {0, Margin + 1, CanvasW - ShapeW}

\* the uint8 masks cv2.imread(..., IMREAD_GRAYSCALE) can hand over
Masks ==
    {Arr(CanvasH, CanvasW, {<<p[1] + ar, p[2] + ac>> : p \in shape}, v, FALSE) :
        shape \in SUBSET BlockCells, ar \in AnchorRows, ac \in AnchorCols,
        v \in LesionValues}

\* the lesion images: a spot in the middle tile, a patch in the tile above it,
\* one body colour elsewhere.  Every colour but black has the gray value 76.
Spot == <<1, 1>>
Patch == <<0, 1>>
Palette == {Black, Red, Crimson, Blue, Brown}

Picture(side, spot, patch, body) ==
    [tile |-> side,
     colour |-> [t \in Tiles |-> IF t = Spot THEN spot ELSE IF t = Patch THEN patch ELSE body],
     rings |-> {}]

Images ==
    {Picture(side, spot, patch, body) :
        side \in TileSides, spot \in Palette, patch \in Palette, body \in Palette \ {Black}}

\* the 3 x 3 masks that go with them: empty, the whole image, the spot alone
TileMasks ==
    {Arr(3, 3, nz, v, FALSE) : nz \in {{}, Tiles, {Spot}}, v \in LesionValues}

NoImage == Picture(0, Black, Black, Black)
NoMask == Arr(0, 0, {}, 0, FALSE)
Pending == [kind |-> "pending"]

ExtIdle ==
    /\ image = NoImage
    /\ orig = [image |-> NoImage, mask |-> NoMask]
    /\ pc = "idle"
    /\ features = ZeroFeatures
    /\ invoked = FALSE
    /\ results = <<>>
    /\ cmp = Pending

BatchIdle ==
    /\ pairs = <<>>
    /\ i = 0
    /\ rows = <<>>
    /\ valid_image_ids = <<>>
    /\ bpc = "idle"

----------------------------------------------------------------------------
(* SpecSym: check_symmetry called on every mask of Masks *)

SymInit ==
    /\ mask \in Masks
    /\ build \in Builds
    /\ sym = Pending
    /\ ExtIdle
    /\ BatchIdle

\* a caller evaluates check_symmetry(mask)
CallCheckSymmetry ==
    /\ sym.kind = "pending"
    /\ sym' = check_symmetry(mask, build)
    /\ UNCHANGED <<mask, build>>
    /\ UNCHANGED extVars
    /\ UNCHANGED batchVars

SymNext == CallCheckSymmetry

SpecSym == SymInit /\ [][SymNext]_vars

----------------------------------------------------------------------------
(* SpecExt: a caller holding one image and one mask calls                  *)
(* extract_features(image, mask) twice in succession, and may call         *)
(* calculate_compactness(mask) directly                                    *)

ExtInit ==
    /\ mask \in TileMasks
    /\ build \in Builds
    /\ sym = Pending
    /\ image \in Images
    /\ orig = [image |-> image, mask |-> mask]
    /\ pc = "idle"
    /\ features = ZeroFeatures
    /\ invoked = FALSE
    /\ results = <<>>
    /\ cmp = Pending
    /\ BatchIdle

\* line 28: the call starts with a fresh array of zeros
ExtCall ==
    /\ bpc = "idle"
    /\ pc = "idle"
    /\ Len(results) < 2
    /\ pc' = "symmetry"
    /\ features' = ZeroFeatures
    /\ invoked' = FALSE
    /\ UNCHANGED <<mask, build, sym, image, orig, results, cmp>>
    /\ UNCHANGED batchVars

\* line 31; the ValueError of check_symmetry leaves extract_features
ExtSymmetry ==
    /\ pc = "symmetry"
    /\ \E s \in {check_symmetry(mask, build)} :
           IF s.kind = "ratio"
           THEN /\ features' = [features EXCEPT ![1] = calculate_symmetry_level(s)]
                /\ pc' = "colours"
                /\ results' = results
           ELSE /\ results' = Append(results, [kind |-> "raised", error |-> s.kind])
                /\ pc' = "idle"
                /\ features' = features
    /\ UNCHANGED <<mask, build, sym, image, orig, invoked, cmp>>
    /\ UNCHANGED batchVars

\* line 34
ExtColours ==
    /\ pc = "colours"
    /\ features' = [features EXCEPT ![2] = color_analysis(image, mask)]
    /\ pc' = "dots"
    /\ UNCHANGED <<mask, build, sym, image, orig, invoked, results, cmp>>
    /\ UNCHANGED batchVars

\* lines 37-38
ExtDetectDots ==
    /\ pc = "dots"
    /\ ShouldDetect(features[2])
    /\ LET d == detect_dots(image, mask)
       IN  /\ features' = [features EXCEPT ![3] = d.flag]
           /\ image' = d.image
    /\ invoked' = TRUE
    /\ pc' = "compactness"
    /\ UNCHANGED <<mask, build, sym, orig, results, cmp>>
    /\ UNCHANGED batchVars

\* lines 39-40
ExtSkipDots ==
    /\ pc = "dots"
    /\ ~ShouldDetect(features[2])
    /\ features' = [features EXCEPT ![3] = 0]
    /\ pc' = "compactness"
    /\ UNCHANGED <<mask, build, sym, image, orig, invoked, results, cmp>>
    /\ UNCHANGED batchVars

\* line 43; the ZeroDivisionError of calculate_compactness leaves extract_features
ExtCompactness ==
    /\ pc = "compactness"
    /\ LET c == calculate_compactness(mask)
       IN  IF c.kind = "ZeroDivisionError"
           THEN /\ results' = Append(results, [kind |-> "raised", error |-> c.kind])
                /\ pc' = "idle"
                /\ features' = features
           ELSE /\ features' = [features EXCEPT ![4] = StoreCompactness(c)]
                /\ pc' = "return"
                /\ results' = results
    /\ UNCHANGED <<mask, build, sym, image, orig, invoked, cmp>>
    /\ UNCHANGED batchVars

\* line 45
ExtReturn ==
    /\ pc = "return"
    /\ results' = Append(results, [kind |-> "features", features |-> features])
    /\ pc' = "idle"
    /\ UNCHANGED <<mask, build, sym, image, orig, features, invoked, cmp>>
    /\ UNCHANGED batchVars

\* a caller evaluates calculate_compactness(mask)
CallCalculateCompactness ==
    /\ pc = "idle"
    /\ results = <<>>
    /\ cmp.kind = "pending"
    /\ cmp' = calculate_compactness(mask)
    /\ UNCHANGED <<mask, build, sym, image, orig, pc, features, invoked, results>>
    /\ UNCHANGED batchVars

ExtNext ==
    \/ ExtCall
    \/ ExtSymmetry
    \/ ExtColours
    \/ ExtDetectDots
    \/ ExtSkipDots
    \/ ExtCompactness
    \/ ExtReturn
    \/ CallCalculateCompactness

SpecExt == ExtInit /\ [][ExtNext]_vars

----------------------------------------------------------------------------
(* SpecBatch: process_images, lines 371-437, run over a metadata file of    *)
(* NPairs rows.  Row k names image file k and its mask file; either file    *)
(* may be missing from the disk.                                            *)

\* lines 416-417: what cv2.imread hands over for the files of one row
BatchImages == {Picture(14, Black, Blue, Red), Picture(14, Red, Red, Red)}
BatchMasks == {Arr(3, 3, nz, 255, FALSE) : nz \in {{}, Tiles, {Spot}}}

PairFamily ==
    {[image_exists |-> TRUE, mask_exists |-> TRUE, im |-> p, mask |-> m] :
        p \in BatchImages, m \in BatchMasks}
    \cup {[image_exists |-> e[1], mask_exists |-> e[2], im |-> NoImage, mask |-> NoMask] :
        e \in {<<FALSE, TRUE>>, <<TRUE, FALSE>>}}

\* line 414
BothExist(pair) == pair.image_exists /\ pair.mask_exists

\* lines 420-421: len(contours) == 0
NoContours(m) == Components(m.nz) = {}

BatchInit ==
    /\ mask = NoMask
    /\ build \in Builds
    /\ sym = Pending
    /\ ExtIdle
    /\ pairs \in [1..NPairs -> PairFamily]
    /\ i = 0
    /\ rows = <<>>
    /\ valid_image_ids = <<>>
    /\ bpc = "loop"

\* line 414 false: the row is passed over
BatchSkipMissing ==
    /\ bpc = "loop"
    /\ i < Len(pairs)
    /\ ~BothExist(pairs[i + 1])
    /\ i' = i + 1
    /\ UNCHANGED <<pairs, rows, valid_image_ids, bpc>>
    /\ UNCHANGED <<mask, build, sym>>
    /\ UNCHANGED extVars

\* lines 420-423: continue
BatchSkipEmpty ==
    /\ bpc = "loop"
    /\ i < Len(pairs)
    /\ BothExist(pairs[i + 1])
    /\ NoContours(pairs[i + 1].mask)
    /\ i' = i + 1
    /\ UNCHANGED <<pairs, rows, valid_image_ids, bpc>>
    /\ UNCHANGED <<mask, build, sym>>
    /\ UNCHANGED extVars

\* lines 416-426: the files are read and extract_features(im, mask) is entered
\* (line 28: a fresh array of zeros)
BatchCall ==
    /\ bpc = "loop"
    /\ i < Len(pairs)
    /\ BothExist(pairs[i + 1])
    /\ ~NoContours(pairs[i + 1].mask)
    /\ image' = pairs[i + 1].im
    /\ mask' = pairs[i + 1].mask
    /\ orig' = [image |-> pairs[i + 1].im, mask |-> pairs[i + 1].mask]
    /\ results' = <<>>
    /\ features' = ZeroFeatures
    /\ invoked' = FALSE
    /\ pc' = "symmetry"
    /\ bpc' = "extract"
    /\ UNCHANGED <<pairs, i, rows, valid_image_ids, build, sym, cmp>>

\* lines 426-432: extract_features has returned x; the row and the id are stored
BatchStore ==
    /\ bpc = "extract"
    /\ pc = "idle"
    /\ Len(results) = 1
    /\ results[1].kind = "features"
    /\ rows' = Append(rows, results[1].features)
    /\ valid_image_ids' = Append(valid_image_ids, i)
    /\ i' = i + 1
    /\ bpc' = "loop"
    /\ UNCHANGED <<pairs, mask, build, sym>>
    /\ UNCHANGED extVars

\* line 426 with no try around it: the exception of extract_features leaves
\* the loop and process_images
BatchRaise ==
    /\ bpc = "extract"
    /\ pc = "idle"
    /\ Len(results) = 1
    /\ results[1].kind = "raised"
    /\ bpc' = "raised"
    /\ UNCHANGED <<pairs, i, rows, valid_image_ids>>
    /\ UNCHANGED <<mask, build, sym>>
    /\ UNCHANGED extVars

\* lines 435-437: the table of rows and image ids
BatchReturn ==
    /\ bpc = "loop"
    /\ i = Len(pairs)
    /\ bpc' = "returned"
    /\ UNCHANGED <<pairs, i, rows, valid_image_ids>>
    /\ UNCHANGED <<mask, build, sym>>
    /\ UNCHANGED extVars

BatchNext ==
    \/ BatchSkipMissing
    \/ BatchSkipEmpty
    \/ BatchCall
    \/ ExtSymmetry
    \/ ExtColours
    \/ ExtDetectDots
    \/ ExtSkipDots
    \/ ExtCompactness
    \/ ExtReturn
    \/ BatchStore
    \/ BatchRaise
    \/ BatchReturn

SpecBatch == BatchInit /\ [][BatchNext]_vars

----------------------------------------------------------------------------
(* Claims about check_symmetry (checked under SpecSym) *)

SymDone == sym.kind # "pending"

\* the number of positions at which a crop and its mirror image disagree,
\* counted once per pair of compared positions
Disagree(a, Mirror(_)) == Cardinality({p \in a.nz : Mirror(p) \notin a.nz})

DisagreeCounts(a) ==
    LET lr(p) == <<p[1], a.w - 1 - p[2]>>
        ud(p) == <<a.h - 1 - p[1], p[2]>>
        dd(p) == <<p[2], p[1]>>
        du(p) == <<a.w - 1 - p[2], a.h - 1 - p[1]>>
    IN  <<Disagree(a, lr), Disagree(a, ud), Disagree(a, dd), Disagree(a, du)>>

\* the mask is its own image under the left-right, top-bottom and both diagonal
\* reflections of its bounding box
FullySymmetric(a) ==
    /\ a.nz # {}
    /\ LET r0 == CHOOSE r \in {p[1] : p \in a.nz} : \A q \in a.nz : r <= q[1]
           r1 == CHOOSE r \in {p[1] : p \in a.nz} : \A q \in a.nz : r >= q[1]
           c0 == CHOOSE c \in {p[2] : p \in a.nz} : \A q \in a.nz : c <= q[2]
           c1 == CHOOSE c \in {p[2] : p \in a.nz} : \A q \in a.nz : c >= q[2]
       IN  /\ r1 - r0 = c1 - c0
           /\ \A p \in a.nz :
                /\ <<p[1], c0 + c1 - p[2]>> \in a.nz
                /\ <<r0 + r1 - p[1], p[2]>> \in a.nz
                /\ <<r0 + (p[2] - c0), c0 + (p[1] - r0)>> \in a.nz
                /\ <<r0 + (c1 - p[2]), c0 + (r1 - p[1])>> \in a.nz

\* C4: for an all-zero mask check_symmetry raises an error and returns no number
C4_DegenerateMaskRaises ==
    (SymDone /\ mask.nz = {}) => (sym.kind = "ValueError" /\ sym.kind # "ratio")

C4_Witness == SymDone /\ mask.nz = {} /\ sym.kind = "ValueError"

\* C6 as stated: every non-empty mask symmetric under all four reflections is
\* given asymmetry level 1
C6_SymmetricMaskIsLevel1 ==
    (sym.kind = "ratio" /\ FullySymmetric(mask)) => calculate_symmetry_level(sym) = 1

\* C9 as stated: each axis ratio 2 * sums[i] / area equals
\* 2 * (disagreeing positions) / (nonzero cells), for lesion value 1 and 255, and
\* the score is the mean of the four
C9_RatioIsMismatchOverCellCount ==
    sym.kind = "ratio" =>
        LET d == DisagreeCounts(sym.new_mask)
            n == Cardinality(mask.nz)
        IN  /\ \A k \in 1..4 : sym.sums[k] * n = d[k] * sym.area
            /\ sym.num * 4 * n = 2 * (d[1] + d[2] + d[3] + d[4]) * sym.den

\* C10: the crop is a square of even side, the truncated center of mass sits at
\* index (side / 2, side / 2), and every nonzero cell of the mask is in the crop
C10_CropSquareEvenCentered ==
    sym.kind = "ratio" =>
        LET nm == sym.new_mask IN
        /\ nm.h = nm.w
        /\ nm.h % 2 = 0
        /\ sym.com[1] - sym.top = nm.h \div 2
        /\ sym.com[2] - sym.left = nm.w \div 2
        /\ \A p \in mask.nz :
             LET q == <<p[1] - sym.top, p[2] - sym.left>>
             IN  q \in nm.nz /\ q[1] \in 0..(nm.h - 1) /\ q[2] \in 0..(nm.w - 1)
        /\ Cardinality(nm.nz) = Cardinality(mask.nz)

\* a lesion in the bottom-right corner: zero rows and columns were appended
C10_Witness ==
    /\ sym.kind = "ratio"
    /\ sym.com[1] + sym.max_dist > mask.h
    /\ sym.com[2] + sym.max_dist > mask.w
    /\ Cardinality(mask.nz) > 1

----------------------------------------------------------------------------
(* Claims about extract_features and its analyzers (checked under SpecExt) *)

\* C1: detect_dots is invoked in a call only once color_analysis has given a
\* count of at least 2; with a count below 2 it is not invoked and the dot flag
\* of the call is 0
C1_DetectorGatedByColorCount ==
    /\ invoked => (pc \in {"compactness", "return", "idle"} /\ features[2] >= 2)
    /\ (pc \in {"compactness", "return"} /\ features[2] < 2)
          => (~invoked /\ features[3] = 0)
    /\ \A k \in 1..Len(results) :
          (results[k].kind = "features" /\ results[k].features[2] < 2)
              => results[k].features[3] = 0

\* the detector ran in a call that is about to return
C1_Witness == pc = "return" /\ invoked /\ features[2] >= 2

\* C2 as stated: the second of two calls on the same image and mask gives what
\* the first gave
C2_SecondCallSameFeatures ==
    Len(results) = 2 => results[2] = results[1]

\* C3 as stated: when a call has ended, the caller's image and mask are what
\* they were when handed over
C3_InputsUnchanged ==
    (pc = "idle" /\ Len(results) >= 1) => (image = orig.image /\ mask = orig.mask)

\* C5 as stated: calculate_compactness on a mask without a contour raises
\* NoContourError and returns nothing, and no emitted feature vector has a
\* placeholder in the compactness slot
C5_NoContourRaises ==
    /\ (cmp.kind # "pending" /\ Components(mask.nz) = {}) => cmp.kind = "NoContourError"
    /\ \A k \in 1..Len(results) :
          results[k].kind = "features" => results[k].features[4] # "nan"

\* the bands of the catalogue with a surviving contour in the caller's image
SurvivingBands ==
    {name \in DOMAIN color_ranges : BandPresent(name, image, mask)}

PureRed == \A t \in Tiles : image.colour[t] = Red

\* C7: the count color_analysis returns is the number of bands with a surviving
\* contour, less one when red and red2 are both among them; it lies in 0..6, and
\* an image of pure red under a full mask counts 1
C7_CountIsBandsLessRedDuplicate ==
    pc = "dots" =>
        /\ features[2] = Cardinality(SurvivingBands)
                         - (IF {"red", "red2"} \subseteq SurvivingBands THEN 1 ELSE 0)
        /\ features[2] \in 0..6
        /\ (PureRed /\ mask.nz = Tiles) => features[2] = 1

\* both halves of red are present
C7_Witness ==
    /\ pc = "dots"
    /\ {"red", "red2"} \subseteq SurvivingBands
    /\ features[2] >= 1

----------------------------------------------------------------------------
(* Claim about process_images (checked under SpecBatch) *)

\* C8 as stated: the exception of one pair does not end the loop; every later
\* pair is processed and the table returned has one row per succeeding pair,
\* with its image id, in input order
C8_BatchSurvivesFailure ==
    /\ bpc # "raised"
    /\ bpc = "returned" =>
          /\ i = Len(pairs)
          /\ Len(rows) = Len(valid_image_ids)
          /\ \A j, k \in 1..Len(valid_image_ids) :
                j < k => valid_image_ids[j] < valid_image_ids[k]

====
